---- MODULE Spec2Model ----
(***************************************************************************)
(* Model of notifications.py: the sensor hierarchy (windowed buffer,       *)
(* rolling average, polymorphic alert predicate), the three notifiers and  *)
(* GestorAlertas (registration, evaluar_y_notificar, generar_reporte,      *)
(* limpiar_historico).                                                     *)
(*                                                                         *)
(* Representation choices:                                                 *)
(*  - a Python str that the code inspects character by character (e-mail   *)
(*    address, URL, phone number) is a sequence of one-character strings;  *)
(*    a str that is only copied around (sensor id, unit) is a TLA+ string. *)
(*  - a float is an exact rational [num, den] in lowest terms, den > 0;    *)
(*    readings, offsets and thresholds are integers.  Floating-point       *)
(*    rounding is not modelled.                                            *)
(*  - print(...) appends a line record to salida; an exception leaving a   *)
(*    method is recorded in excepcion.                                     *)
(***************************************************************************)
EXTENDS Integers, Sequences, FiniteSets, TLC

VARIABLES
    sensores,        \* GestorAlertas._sensores: sequence of sensor records
    notificadores,   \* GestorAlertas._notificadores: sequence of notifier records
    log_alertas,     \* GestorAlertas._log_alertas: sequence of RegistroAlerta
    reloj,           \* datetime.now(): instants handed out so far
    lecturas,        \* history: per registered sensor, every raw value passed to leer
    op,              \* the operation that ran last
    salida,          \* lines printed by the operation that ran last
    retorno,         \* <<v>> when the last operation returned v, <<>> for None
    excepcion,       \* "none", or the exception the last operation let escape
    traza            \* history: events of the last evaluar_y_notificar, in order

vars == <<sensores, notificadores, log_alertas, reloj, lecturas,
          op, salida, retorno, excepcion, traza>>

(***************************************************************************)
(* Bounds                                                                  *)
(***************************************************************************)
MaxSensores == 2          \* registered sensors (Spec)
MaxNotificadores == 2     \* registered notifiers (Spec)
MaxLecturas == 1          \* leer calls in total (Spec)
MaxAlertas == 2           \* RegistroAlerta objects ever created (Spec)
MaxVentana == 2           \* largest window (SpecSensor)
MaxLecturasSensor == 3    \* leer calls (SpecSensor)
MaxLecturasReporte == 1   \* leer calls per sensor (SpecReporte)
MaxAlertasReporte == 6    \* RegistroAlerta objects ever created (SpecReporte)
MaxTelLen == 14           \* longest phone number (SpecNotificador)

(***************************************************************************)
(* Python str and sequence helpers                                         *)
(***************************************************************************)
Min(a, b) == IF a < b THEN a ELSE b
Max(a, b) == IF a > b THEN a ELSE b

\* s[a:b] with Python's treatment of negative and out-of-range indices.
PySliceIdx(n, k) == IF k < 0 THEN Max(n + k, 0) ELSE Min(k, n)
PySlice(s, a, b) ==
    LET lo == PySliceIdx(Len(s), a)
        hi == PySliceIdx(Len(s), b)
    IN  IF lo >= hi THEN <<>> ELSE SubSeq(s, lo + 1, hi)
\* s[a:]
PySliceFrom(s, a) == PySlice(s, a, Len(s))

IsPrefix(p, s) == Len(p) <= Len(s) /\ SubSeq(s, 1, Len(p)) = p

Digits == {"0", "1", "2", "3", "4", "5", "6", "7", "8", "9"}
Letters == {"a", "b", "c", "d", "e", "h", "m", "n", "o", "p", "s", "t", "x"}

\* filter(pred, s) for a character class
RECURSIVE FilterChars(_, _)
FilterChars(s, class) ==
    IF s = <<>> THEN <<>>
    ELSE (IF Head(s) \in class THEN <<Head(s)>> ELSE <<>>)
         \o FilterChars(Tail(s), class)

AllIn(s, class) == \A k \in 1..Len(s) : s[k] \in class

\* Tagged Python values, for calls whose argument types decide the outcome.
PyStr(s) == [t |-> "str", v |-> s]
PyInt(n) == [t |-> "int", v |-> <<n>>]

\* str.startswith(prefix, start): start must be an int (or None); any other
\* type raises TypeError before the prefix is looked at.
str_startswith(s, prefix, start) ==
    IF start.t # "int"
    THEN [exc |-> "TypeError", val |-> FALSE]
    ELSE [exc |-> "none",
          val |-> IsPrefix(prefix.v, PySliceFrom(s, start.v[1]))]

(***************************************************************************)
(* Results of a call that may print and may raise                          *)
(***************************************************************************)
Ok(lineas) == [exc |-> "none", salida |-> lineas]
Raise(e) == [exc |-> e, salida |-> <<>>]

(***************************************************************************)
(* NotificadorEmail                                                        *)
(***************************************************************************)
LocalChars == Letters \cup Digits \cup {".", "_", "%", "+", "-"}
DomainChars == Letters \cup Digits \cup {".", "-"}

\* re.match(r'^[a-zA-Z0-9._%+-]+@[a-zA-Z0-9.-]+\.[a-zA-Z]{2,}$', d):
\* a non-empty local part, "@", a non-empty domain, ".", two or more letters.
MatchesEmail(d) ==
    \E i \in 1..Len(d) : \E j \in 1..Len(d) :
        /\ 1 < i /\ i + 1 < j /\ j + 2 <= Len(d)
        /\ d[i] = "@" /\ d[j] = "."
        /\ AllIn(SubSeq(d, 1, i - 1), LocalChars)
        /\ AllIn(SubSeq(d, i + 1, j - 1), DomainChars)
        /\ AllIn(SubSeq(d, j + 1, Len(d)), Letters)

\* "$" also matches just before one trailing newline.
validar_email(n) ==
    \/ MatchesEmail(n.destinatario)
    \/ /\ n.destinatario # <<>>
       /\ n.destinatario[Len(n.destinatario)] = "\n"
       /\ MatchesEmail(SubSeq(n.destinatario, 1, Len(n.destinatario) - 1))

NotificadorEmail_enviar(n, mensaje) ==
    IF validar_email(n)
    THEN Ok(<<[tag |-> "EMAIL", servidor_smtp |-> n.servidor_smtp,
               destinatario |-> n.destinatario, mensaje |-> mensaje]>>)
    ELSE Ok(<<[tag |-> "ERROR EMAIL", destinatario |-> n.destinatario]>>)

(***************************************************************************)
(* NotificadorWebhook                                                      *)
(***************************************************************************)
HttpPrefix == <<"h", "t", "t", "p", ":", "/", "/">>
HttpsPrefix == <<"h", "t", "t", "p", "s", ":", "/", "/">>

\* self._url.startswith("http://", "https://"): the second string is passed
\* in the position of the start index.
validar_url(n) == str_startswith(n.url, PyStr(HttpPrefix), PyStr(HttpsPrefix))

NotificadorWebhook_enviar(n, mensaje) ==
    LET r == validar_url(n)
    IN  IF r.exc # "none" THEN Raise(r.exc)
        ELSE IF r.val
        THEN Ok(<<[tag |-> "WEBHOOK", url |-> n.url, mensaje |-> mensaje]>>)
        ELSE Ok(<<[tag |-> "ERROR WEBHOOK"]>>)

(***************************************************************************)
(* NotificadorSMS                                                          *)
(***************************************************************************)
\* formato_numero taking the first ten digits instead of the last ten
formato_numero_first(n) ==
    LET numeros == FilterChars(n.numero, Digits)
    IN  IF Len(numeros) >= 10
        THEN <<"+", "1", "-">> \o PySlice(numeros, 0, 3) \o <<"-">>
             \o PySlice(numeros, 3, 6) \o <<"-">> \o PySlice(numeros, 6, 10)
        ELSE n.numero

formato_numero(n) ==
    LET numeros == FilterChars(n.numero, Digits)
    IN  IF Len(numeros) >= 10
        THEN <<"+", "1", "-">> \o PySlice(numeros, -10, -7) \o <<"-">>
             \o PySlice(numeros, -7, -4) \o <<"-">> \o PySliceFrom(numeros, -4)
        ELSE n.numero

NotificadorSMS_enviar(n, mensaje) ==
    LET numero_formateado == formato_numero(n)
    IN  Ok(<<[tag |-> "SMS", proveedor |-> n.proveedor,
              numero |-> numero_formateado, mensaje |-> mensaje]>>)

\* Dynamic dispatch of notificador.enviar(mensaje)
enviar(n, mensaje) ==
    CASE n.clase = "NotificadorEmail" -> NotificadorEmail_enviar(n, mensaje)
      [] n.clase = "NotificadorWebhook" -> NotificadorWebhook_enviar(n, mensaje)
      [] n.clase = "NotificadorSMS" -> NotificadorSMS_enviar(n, mensaje)

\* Constructors, with the defaults of __init__
NotificadorEmail(destinatario) ==
    [clase |-> "NotificadorEmail", destinatario |-> destinatario,
     servidor_smtp |-> "smtp.gmail.com"]
NotificadorWebhook(url) ==
    [clase |-> "NotificadorWebhook", url |-> url]
NotificadorSMS(numero) ==
    [clase |-> "NotificadorSMS", numero |-> numero, proveedor |-> "Twilio"]

(***************************************************************************)
(* Exact rationals standing for floats                                     *)
(***************************************************************************)
Abs(a) == IF a < 0 THEN -a ELSE a

RECURSIVE Gcd(_, _)
Gcd(a, b) == IF b = 0 THEN a ELSE Gcd(b, a % b)

\* n/d, d > 0, in lowest terms
Rat(n, d) ==
    LET g == Gcd(Abs(n), d)
    IN  [num |-> n \div g, den |-> d \div g]

RatGeq(q, k) == q.num >= k * q.den
RatLeq(q, k) == q.num <= k * q.den

\* f"{q:.2f}": q rounded to hundredths, ties to even; the result is the
\* number of hundredths.
Fmt2f(q) ==
    LET n == q.num * 100
        fl == n \div q.den
        r == n % q.den
    IN  IF 2 * r < q.den THEN fl
        ELSE IF 2 * r > q.den THEN fl + 1
        ELSE IF fl % 2 = 0 THEN fl ELSE fl + 1

RECURSIVE Sum(_)
Sum(s) == IF s = <<>> THEN 0 ELSE Head(s) + Sum(Tail(s))

RECURSIVE SumSq(_)
SumSq(s) == IF s = <<>> THEN 0 ELSE Head(s) * Head(s) + SumSq(Tail(s))

(***************************************************************************)
(* Sensor and its subclasses                                               *)
(***************************************************************************)
SensorTemperatura(id, ventana, calibracion, umbral_max, umbral_min) ==
    [clase |-> "SensorTemperatura", id |-> id, ventana |-> ventana,
     calibracion |-> calibracion, buffer |-> <<>>,
     umbral_max |-> umbral_max, umbral_min |-> umbral_min, unidad |-> "C"]
SensorVibracion(id, ventana, calibracion, rms_umbral) ==
    [clase |-> "SensorVibracion", id |-> id, ventana |-> ventana,
     calibracion |-> calibracion, buffer |-> <<>>,
     rms_umbral |-> rms_umbral, frecuencia |-> 1000]
SensorHumedad(id, ventana, calibracion, umbral_humedad) ==
    [clase |-> "SensorHumedad", id |-> id, ventana |-> ventana,
     calibracion |-> calibracion, buffer |-> <<>>,
     umbral_humedad |-> umbral_humedad, tipo_ambiente |-> "interior"]

\* Sensor.leer evicting the newest element instead of the oldest
Sensor_leer_newest(s, valor) ==
    LET v == valor + s.calibracion
        b == Append(s.buffer, v)
    IN  [s EXCEPT !.buffer = IF Len(b) > s.ventana THEN SubSeq(b, 1, Len(b) - 1) ELSE b]

\* Sensor.leer: the buffer after reading valor
Sensor_leer(s, valor) ==
    LET v == valor + s.calibracion
        b == Append(s.buffer, v)
    IN  [s EXCEPT !.buffer = IF Len(b) > s.ventana THEN Tail(b) ELSE b]

promedio(s) ==
    IF s.buffer # <<>> THEN Rat(Sum(s.buffer), Len(s.buffer)) ELSE Rat(0, 1)

\* calcular_rms taking the square of the mean instead of the mean of squares
calcular_rms_of_mean(s) ==
    IF s.buffer = <<>> THEN [cuadrado |-> Rat(0, 1)]
    ELSE [cuadrado |-> Rat(Sum(s.buffer) * Sum(s.buffer), Len(s.buffer) * Len(s.buffer))]

\* The root mean square is a non-negative real; it is carried as its square.
calcular_rms(s) ==
    IF s.buffer = <<>> THEN [cuadrado |-> Rat(0, 1)]
    ELSE [cuadrado |-> Rat(SumSq(s.buffer), Len(s.buffer))]

\* abs(r) >= k for r the non-negative root of r.cuadrado
AbsRaizGeq(r, k) == k <= 0 \/ RatGeq(r.cuadrado, k * k)

\* SensorTemperatura.en_alerta with strict comparisons
SensorTemperatura_en_alerta_strict(s) ==
    ~RatLeq(promedio(s), s.umbral_max) \/ ~RatGeq(promedio(s), s.umbral_min)

SensorTemperatura_en_alerta(s) ==
    RatGeq(promedio(s), s.umbral_max) \/ RatLeq(promedio(s), s.umbral_min)

SensorVibracion_en_alerta(s) == AbsRaizGeq(calcular_rms(s), s.rms_umbral)

SensorHumedad_en_alerta(s) == RatGeq(promedio(s), s.umbral_humedad)

en_alerta(s) ==
    CASE s.clase = "SensorTemperatura" -> SensorTemperatura_en_alerta(s)
      [] s.clase = "SensorVibracion" -> SensorVibracion_en_alerta(s)
      [] s.clase = "SensorHumedad" -> SensorHumedad_en_alerta(s)

obtener_tipo(s) ==
    CASE s.clase = "SensorTemperatura" -> [tipo |-> "Temperatura", unidad |-> s.unidad]
      [] s.clase = "SensorVibracion" -> [tipo |-> "Vibracion", frecuencia |-> s.frecuencia]
      [] s.clase = "SensorHumedad" -> [tipo |-> "Humedad", tipo_ambiente |-> s.tipo_ambiente]

obtener_estado(s) ==
    LET estado == IF en_alerta(s) THEN "ALERTA" ELSE "NORMAL"
    IN  [id |-> s.id, tipo |-> obtener_tipo(s), estado |-> estado,
         promedio |-> Fmt2f(promedio(s))]

(***************************************************************************)
(* GestorAlertas                                                           *)
(***************************************************************************)
Init ==
    /\ sensores = <<>>
    /\ notificadores = <<>>
    /\ log_alertas = <<>>
    /\ reloj = 0
    /\ lecturas = <<>>
    /\ op = [nombre |-> "init"]
    /\ salida = <<>>
    /\ retorno = <<>>
    /\ excepcion = "none"
    /\ traza = <<>>

agregar_sensor(sensor) ==
    /\ sensores' = Append(sensores, sensor)
    /\ lecturas' = Append(lecturas, <<>>)
    /\ op' = [nombre |-> "agregar_sensor"]
    /\ salida' = <<[tag |-> "SENSOR AGREGADO", id |-> sensor.id]>>
    /\ retorno' = <<>>
    /\ excepcion' = "none"
    /\ traza' = <<>>
    /\ UNCHANGED <<notificadores, log_alertas, reloj>>

agregar_notificador(notificador) ==
    /\ notificadores' = Append(notificadores, notificador)
    /\ op' = [nombre |-> "agregar_notificador"]
    /\ salida' = <<[tag |-> "NOTIFICADOR AGREGADO", clase |-> notificador.clase]>>
    /\ retorno' = <<>>
    /\ excepcion' = "none"
    /\ traza' = <<>>
    /\ UNCHANGED <<sensores, log_alertas, reloj, lecturas>>

\* sensores[i].leer(valor)
leer(i, valor) ==
    /\ sensores' = [sensores EXCEPT ![i] = Sensor_leer(@, valor)]
    /\ lecturas' = [lecturas EXCEPT ![i] = Append(@, valor)]
    /\ op' = [nombre |-> "leer", sensor |-> i]
    /\ salida' = <<>>
    /\ retorno' = <<>>
    /\ excepcion' = "none"
    /\ traza' = <<>>
    /\ UNCHANGED <<notificadores, log_alertas, reloj>>

\* sensores[i].obtener_estado()
consultar_estado(i) ==
    /\ op' = [nombre |-> "obtener_estado", sensor |-> i]
    /\ salida' = <<>>
    /\ retorno' = <<obtener_estado(sensores[i])>>
    /\ excepcion' = "none"
    /\ traza' = <<>>
    /\ UNCHANGED <<sensores, notificadores, log_alertas, reloj, lecturas>>

\* f"ALERTA: Sensor {sensor.id} en umbral (promedio={sensor.promedio:.2f})"
Mensaje(s) == [id |-> s.id, promedio |-> Fmt2f(promedio(s))]

RegistroAlerta(sensor_id, mensaje, nivel, valor_medido, ahora) ==
    [sensor_id |-> sensor_id, mensaje |-> mensaje, nivel |-> nivel,
     valor_medido |-> valor_medido, timestamp |-> ahora]

\* The notifier loop walking the list from its end
RECURSIVE NotificarDesde_reverse(_, _, _)
NotificarDesde_reverse(j, i, mensaje) ==
    IF j > Len(notificadores)
    THEN [exc |-> "none", salida |-> <<>>, eventos |-> <<>>]
    ELSE LET x == Len(notificadores) + 1 - j
             r == enviar(notificadores[x], mensaje)
             e == [ev |-> "enviar", sensor |-> i, notificador |-> x,
                   mensaje |-> mensaje, exc |-> r.exc]
         IN  IF r.exc # "none"
             THEN [exc |-> r.exc, salida |-> r.salida, eventos |-> <<e>>]
             ELSE LET resto == NotificarDesde_reverse(j + 1, i, mensaje)
                  IN  [exc |-> resto.exc,
                       salida |-> r.salida \o resto.salida,
                       eventos |-> <<e>> \o resto.eventos]

\* for notificador in self._notificadores[j..]: notificador.enviar(mensaje)
\* An exception raised by enviar ends the loop and leaves it.
RECURSIVE NotificarDesde(_, _, _)
NotificarDesde(j, i, mensaje) ==
    IF j > Len(notificadores)
    THEN [exc |-> "none", salida |-> <<>>, eventos |-> <<>>]
    ELSE LET r == enviar(notificadores[j], mensaje)
             e == [ev |-> "enviar", sensor |-> i, notificador |-> j,
                   mensaje |-> mensaje, exc |-> r.exc]
         IN  IF r.exc # "none"
             THEN [exc |-> r.exc, salida |-> r.salida, eventos |-> <<e>>]
             ELSE LET resto == NotificarDesde(j + 1, i, mensaje)
                  IN  [exc |-> resto.exc,
                       salida |-> r.salida \o resto.salida,
                       eventos |-> <<e>> \o resto.eventos]

\* for sensor in self._sensores[i..]: ... , then the closing print
RECURSIVE EvaluarDesde(_, _, _, _)
EvaluarDesde(i, log, ahora, alertas_encontradas) ==
    IF i > Len(sensores)
    THEN [exc |-> "none", log |-> log, reloj |-> ahora, eventos |-> <<>>,
          salida |-> IF alertas_encontradas = 0
                     THEN <<[tag |-> "SIN ALERTAS"]>>
                     ELSE <<[tag |-> "SE DETECTARON", n |-> alertas_encontradas]>>]
    ELSE LET sensor == sensores[i]
             ev == [ev |-> "en_alerta", sensor |-> i, res |-> en_alerta(sensor)]
         IN  IF ~en_alerta(sensor)
             THEN LET resto == EvaluarDesde(i + 1, log, ahora, alertas_encontradas)
                  IN  [resto EXCEPT !.eventos = <<ev>> \o @]
             ELSE LET mensaje == Mensaje(sensor)
                      registro == RegistroAlerta(sensor.id, mensaje, "WARNING",
                                                 promedio(sensor), ahora)
                      log2 == Append(log, registro)
                      ap == [ev |-> "append", sensor |-> i]
                      n == NotificarDesde(1, i, mensaje)
                  IN  IF n.exc # "none"
                      THEN [exc |-> n.exc, log |-> log2, reloj |-> ahora + 1,
                            eventos |-> <<ev, ap>> \o n.eventos,
                            salida |-> n.salida]
                      ELSE LET resto == EvaluarDesde(i + 1, log2, ahora + 1,
                                                     alertas_encontradas + 1)
                           IN  [resto EXCEPT
                                  !.eventos = <<ev, ap>> \o n.eventos \o @,
                                  !.salida = n.salida \o @]

\* evaluar_y_notificar logging a record for every sensor, alerting or not
evaluar_y_notificar_log_all ==
    LET r == EvaluarDesde(1, log_alertas, reloj, 0)
    IN  /\ log_alertas' = r.log \o
              [k \in 1..Len(sensores) |->
                  RegistroAlerta(sensores[k].id, Mensaje(sensores[k]), "WARNING",
                                 promedio(sensores[k]), r.reloj)]
        /\ reloj' = r.reloj
        /\ op' = [nombre |-> "evaluar_y_notificar"]
        /\ salida' = r.salida
        /\ retorno' = <<>>
        /\ excepcion' = r.exc
        /\ traza' = r.eventos
        /\ UNCHANGED <<sensores, notificadores, lecturas>>

evaluar_y_notificar ==
    LET r == EvaluarDesde(1, log_alertas, reloj, 0)
    IN  /\ log_alertas' = r.log
        /\ reloj' = r.reloj
        /\ op' = [nombre |-> "evaluar_y_notificar"]
        /\ salida' = r.salida
        /\ retorno' = <<>>
        /\ excepcion' = r.exc
        /\ traza' = r.eventos
        /\ UNCHANGED <<sensores, notificadores, lecturas>>

\* strftime('%H:%M:%S'): instants are whole seconds; the date is dropped.
HoraDelDia(t) == t % 86400

LineaAlerta(registro) ==
    [hora |-> HoraDelDia(registro.timestamp), sensor_id |-> registro.sensor_id,
     mensaje |-> registro.mensaje]

\* generar_reporte listing the first five records instead of the last five
Reporte_first5 ==
    [sensores_activos |-> Len(sensores),
     notificadores |-> Len(notificadores),
     alertas_registradas |-> Len(log_alertas),
     estados |-> [k \in 1..Len(sensores) |-> obtener_estado(sensores[k])],
     ultimas |-> IF log_alertas # <<>>
                 THEN LET u == PySlice(log_alertas, 0, 5)
                      IN  <<[k \in 1..Len(u) |-> LineaAlerta(u[k])]>>
                 ELSE <<>>]

Reporte ==
    [sensores_activos |-> Len(sensores),
     notificadores |-> Len(notificadores),
     alertas_registradas |-> Len(log_alertas),
     estados |-> [k \in 1..Len(sensores) |-> obtener_estado(sensores[k])],
     \* <<>> when the section is left out, <<lines>> when it is written
     ultimas |-> IF log_alertas # <<>>
                 THEN LET u == PySliceFrom(log_alertas, -5)
                      IN  <<[k \in 1..Len(u) |-> LineaAlerta(u[k])]>>
                 ELSE <<>>]

\* generar_reporte taking the records it lists out of the history
generar_reporte_pop ==
    /\ op' = [nombre |-> "generar_reporte"]
    /\ salida' = <<>>
    /\ retorno' = <<Reporte>>
    /\ excepcion' = "none"
    /\ traza' = <<>>
    /\ log_alertas' = PySlice(log_alertas, 0, -5)
    /\ UNCHANGED <<sensores, notificadores, reloj, lecturas>>

generar_reporte ==
    /\ op' = [nombre |-> "generar_reporte"]
    /\ salida' = <<>>
    /\ retorno' = <<Reporte>>
    /\ excepcion' = "none"
    /\ traza' = <<>>
    /\ UNCHANGED <<sensores, notificadores, log_alertas, reloj, lecturas>>

\* limpiar_historico counting the records after clearing the list
limpiar_historico_count_after ==
    /\ log_alertas' = <<>>
    /\ op' = [nombre |-> "limpiar_historico"]
    /\ salida' = <<[tag |-> "HISTORICO LIMPIADO", n |-> Len(log_alertas')]>>
    /\ retorno' = <<>>
    /\ excepcion' = "none"
    /\ traza' = <<>>
    /\ UNCHANGED <<sensores, notificadores, reloj, lecturas>>

limpiar_historico ==
    LET alertas_eliminadas == Len(log_alertas)
    IN  /\ log_alertas' = <<>>
        /\ op' = [nombre |-> "limpiar_historico"]
        /\ salida' = <<[tag |-> "HISTORICO LIMPIADO", n |-> alertas_eliminadas]>>
        /\ retorno' = <<>>
        /\ excepcion' = "none"
        /\ traza' = <<>>
        /\ UNCHANGED <<sensores, notificadores, reloj, lecturas>>

\* notificadores[j].enviar(mensaje), called directly
enviar_directo(j, mensaje) ==
    LET r == enviar(notificadores[j], mensaje)
    IN  /\ op' = [nombre |-> "enviar", notificador |-> j, mensaje |-> mensaje]
        /\ salida' = r.salida
        /\ retorno' = <<>>
        /\ excepcion' = r.exc
        /\ traza' = <<>>
        /\ UNCHANGED <<sensores, notificadores, log_alertas, reloj, lecturas>>

(***************************************************************************)
(* Environments: what the callers pass in                                  *)
(***************************************************************************)
\* Destinations
EmailValido == <<"a", "@", "b", ".", "c", "o">>
EmailInvalido == <<"a", "b">>
UrlHttps == <<"h", "t", "t", "p", "s", ":", "/", "/", "h">>
UrlHttp == <<"h", "t", "t", "p", ":", "/", "/", "h">>
UrlInvalida == <<"f", "t", "p", ":", "/", "/", "h">>
Telefono == <<"5", "5", "5", "-", "1", "2", "3", "-", "4", "5", "6", "7">>

NotificadoresDisponibles ==
    { NotificadorEmail(EmailInvalido),
      NotificadorWebhook(UrlHttps), NotificadorWebhook(UrlInvalida),
      NotificadorSMS(Telefono) }

SensoresDisponibles ==
    { SensorTemperatura("T1", 1, 0, 5, 0),
      SensorVibracion("V1", 2, 0, 2),
      SensorHumedad("H1", 1, 1, 3) }

Valores == {3}

Ids == {sensores[k].id : k \in 1..Len(sensores)}
Registrados == {notificadores[k] : k \in 1..Len(notificadores)}
RECURSIVE SumLen(_)
SumLen(ss) == IF ss = <<>> THEN 0 ELSE Len(Head(ss)) + SumLen(Tail(ss))
TotalLecturas == SumLen(lecturas)
Alertando == {k \in 1..Len(sensores) : en_alerta(sensores[k])}

AgregarSensor ==
    \E s \in SensoresDisponibles :
        /\ Len(sensores) < MaxSensores
        /\ s.id \notin Ids
        /\ agregar_sensor(s)

AgregarNotificador ==
    \E n \in NotificadoresDisponibles :
        /\ Len(notificadores) < MaxNotificadores
        /\ n \notin Registrados
        /\ agregar_notificador(n)

Leer ==
    \E i \in 1..Len(sensores) : \E v \in Valores :
        /\ TotalLecturas < MaxLecturas
        /\ leer(i, v)

Evaluar ==
    /\ reloj + Cardinality(Alertando) <= MaxAlertas
    /\ evaluar_y_notificar

GenerarReporte == generar_reporte

ConsultarEstadoSensor == \E i \in 1..Len(sensores) : consultar_estado(i)

LimpiarHistorico == limpiar_historico

Next ==
    \/ AgregarSensor
    \/ AgregarNotificador
    \/ Leer
    \/ Evaluar
    \/ GenerarReporte
    \/ ConsultarEstadoSensor
    \/ LimpiarHistorico

Spec == Init /\ [][Next]_vars

(***************************************************************************)
(* SpecSensor: one sensor of any configuration, fed any readings           *)
(***************************************************************************)
ValoresPrueba == {-3, -1, 0, 1, 3}
Calibraciones == {0, 1}

SensoresPrueba ==
    { SensorTemperatura("T1", w, c, u[1], u[2]) :
        w \in 1..MaxVentana, c \in Calibraciones,
        u \in {<<2, -2>>, <<0, -2>>, <<2, 0>>} }
    \cup { SensorVibracion("V1", w, c, u) :
        w \in 1..MaxVentana, c \in Calibraciones, u \in {-1, 0, 2} }
    \cup { SensorHumedad("H1", w, c, 2) :
        w \in 1..MaxVentana, c \in Calibraciones }

InitSensor ==
    /\ sensores \in {<<s>> : s \in SensoresPrueba}
    /\ notificadores = <<>>
    /\ log_alertas = <<>>
    /\ reloj = 0
    /\ lecturas = <<<<>>>>
    /\ op = [nombre |-> "init"]
    /\ salida = <<>>
    /\ retorno = <<>>
    /\ excepcion = "none"
    /\ traza = <<>>

LeerSensor ==
    \E v \in ValoresPrueba :
        /\ Len(lecturas[1]) < MaxLecturasSensor
        /\ leer(1, v)

ConsultarEstado == consultar_estado(1)

NextSensor == LeerSensor \/ ConsultarEstado

SpecSensor == InitSensor /\ [][NextSensor]_vars

(***************************************************************************)
(* SpecNotificador: one notifier of any destination, sent any message      *)
(***************************************************************************)
\* Every contiguous piece of s of at most MaxTelLen characters
Trozos(s) ==
    { SubSeq(s, a, b) : a \in 1..(Len(s) + 1), b \in 0..Len(s) }
TrozosCortos(s) == { t \in Trozos(s) : Len(t) <= MaxTelLen }

TelefonoLargo == <<"+", "1", "-", "5", "5", "5", "-", "1", "2", "3", "-", "4", "5", "6", "7", "x">>
SoloDigitos == <<"0", "1", "2", "3", "4", "5", "6", "7", "8", "9", "0", "1", "2">>

Telefonos == TrozosCortos(TelefonoLargo) \cup TrozosCortos(SoloDigitos)

Emails == { EmailValido, EmailInvalido, <<"a", "@", "b", ".", "c">>, <<"a", "@", "b", ".", "c", "o", "\n">>, <<"@", "b", ".", "c", "o">> }
Urls == { UrlHttps, UrlHttp, UrlInvalida, <<>>, <<"h", "t", "t", "p", ":", "/">> }

NotificadoresPrueba ==
    { NotificadorEmail(d) : d \in Emails }
    \cup { NotificadorWebhook(u) : u \in Urls }
    \cup { NotificadorSMS(t) : t \in Telefonos }

Mensajes == { [id |-> "T1", promedio |-> 300], [id |-> "V1", promedio |-> 150] }

InitNotificador ==
    /\ sensores = <<>>
    /\ notificadores \in {<<n>> : n \in NotificadoresPrueba}
    /\ log_alertas = <<>>
    /\ reloj = 0
    /\ lecturas = <<>>
    /\ op = [nombre |-> "init"]
    /\ salida = <<>>
    /\ retorno = <<>>
    /\ excepcion = "none"
    /\ traza = <<>>

EnviarDirecto == \E m \in Mensajes : enviar_directo(1, m)

NextNotificador == EnviarDirecto

SpecNotificador == InitNotificador /\ [][NextNotificador]_vars

(***************************************************************************)
(* SpecReporte: two sensors and one notifier, many evaluation cycles       *)
(***************************************************************************)
InitReporte ==
    /\ sensores = <<SensorTemperatura("T1", 1, 0, 5, 0), SensorHumedad("H1", 1, 1, 3)>>
    /\ notificadores = <<NotificadorSMS(Telefono)>>
    /\ log_alertas = <<>>
    /\ reloj = 0
    /\ lecturas = <<<<>>, <<>>>>
    /\ op = [nombre |-> "init"]
    /\ salida = <<>>
    /\ retorno = <<>>
    /\ excepcion = "none"
    /\ traza = <<>>

LeerReporte ==
    \E i \in 1..Len(sensores) : \E v \in Valores :
        /\ Len(lecturas[i]) < MaxLecturasReporte
        /\ leer(i, v)

EvaluarReporte ==
    /\ reloj + Cardinality(Alertando) <= MaxAlertasReporte
    /\ evaluar_y_notificar

NextReporte ==
    \/ LeerReporte
    \/ EvaluarReporte
    \/ GenerarReporte
    \/ LimpiarHistorico

SpecReporte == InitReporte /\ [][NextReporte]_vars

(***************************************************************************)
(* Properties                                                              *)
(***************************************************************************)
EnviosDe(t, i, j) ==
    {k \in 1..Len(t) : t[k].ev = "enviar" /\ t[k].sensor = i /\ t[k].notificador = j}
Envios(t) == {k \in 1..Len(t) : t[k].ev = "enviar"}
Evaluados(t) == {t[k].sensor : k \in {x \in 1..Len(t) : t[x].ev = "en_alerta"}}

EmpiezaPorHttp(url) == IsPrefix(HttpPrefix, url) \/ IsPrefix(HttpsPrefix, url)

\* The destination is one the notifier is meant to reject.
DestinoInvalido(n) ==
    \/ n.clase = "NotificadorEmail" /\ ~validar_email(n)
    \/ n.clase = "NotificadorWebhook" /\ ~EmpiezaPorHttp(n.url)

\* C1: one call of evaluar_y_notificar invokes enviar exactly once on every
\* registered notifier for every alerting sensor, with a message that
\* contains that sensor's id.
C1_EveryNotifierOncePerAlert ==
    op.nombre = "evaluar_y_notificar" =>
        \A i \in Alertando : \A j \in 1..Len(notificadores) :
            /\ Cardinality(EnviosDe(traza, i, j)) = 1
            /\ \A k \in EnviosDe(traza, i, j) : traza[k].mensaje.id = sensores[i].id

\* C2: with a notifier whose destination fails validation registered, the
\* cycle still runs to completion: no exception reaches the caller, every
\* sensor is evaluated and every notifier receives every alert.
C2_InvalidDestinationNeverAborts ==
    (/\ op.nombre = "evaluar_y_notificar"
     /\ \E j \in 1..Len(notificadores) : DestinoInvalido(notificadores[j])) =>
        /\ excepcion = "none"
        /\ Evaluados(traza) = 1..Len(sensores)
        /\ \A i \in Alertando : \A j \in 1..Len(notificadores) :
               EnviosDe(traza, i, j) # {}

\* C3: NotificadorWebhook.enviar returns normally; it prints the delivery
\* line when the URL begins with http:// or https:// and the ERROR WEBHOOK
\* line otherwise.
C3_WebhookDeliversOrReports ==
    (op.nombre = "enviar" /\ notificadores[1].clase = "NotificadorWebhook") =>
        /\ excepcion = "none"
        /\ IF EmpiezaPorHttp(notificadores[1].url)
           THEN salida = <<[tag |-> "WEBHOOK", url |-> notificadores[1].url,
                            mensaje |-> op.mensaje]>>
           ELSE salida = <<[tag |-> "ERROR WEBHOOK"]>>

\* C4: after any sequence of leer calls on a sensor with ventana >= 1, the
\* buffer is the last min(k, ventana) raw values, each plus the calibration
\* offset, in arrival order; so it never holds more than ventana values.
C4_BufferIsLastWindow ==
    \A i \in 1..Len(sensores) :
        sensores[i].ventana >= 1 =>
            LET k == Len(lecturas[i])
                m == Min(k, sensores[i].ventana)
            IN  /\ Len(sensores[i].buffer) <= sensores[i].ventana
                /\ sensores[i].buffer =
                       [x \in 1..m |-> lecturas[i][k - m + x] + sensores[i].calibracion]

C4_Witness ==
    /\ op.nombre = "leer"
    /\ sensores[1].ventana = 2
    /\ sensores[1].calibracion = 1
    /\ lecturas[1] = <<3, -1, 1>>
    /\ sensores[1].buffer = <<0, 2>>

\* C5: a cycle run while no sensor is alerting calls enviar on no notifier
\* and leaves the alert history as it was.
C5_NoAlertNoEffect ==
    [][(op'.nombre = "evaluar_y_notificar" /\ Alertando = {}) =>
          /\ log_alertas' = log_alertas
          /\ Envios(traza') = {}
          /\ salida' = <<[tag |-> "SIN ALERTAS"]>>]_vars

C5_Witness ==
    /\ op.nombre = "evaluar_y_notificar"
    /\ Alertando = {}
    /\ Len(sensores) = 2
    /\ Len(notificadores) = 2
    /\ Len(log_alertas) = 1
    /\ traza # <<>>

\* C6: limpiar_historico empties the alert history, prints the length the
\* history had just before the call, and leaves sensors, buffers and
\* notifiers alone.
C6_ClearReportsPriorLength ==
    [][op'.nombre = "limpiar_historico" =>
          /\ log_alertas' = <<>>
          /\ salida' = <<[tag |-> "HISTORICO LIMPIADO", n |-> Len(log_alertas)]>>
          /\ sensores' = sensores
          /\ notificadores' = notificadores]_vars

C6_Witness ==
    /\ op.nombre = "limpiar_historico"
    /\ salida[1].n = 2
    /\ log_alertas = <<>>
    /\ \E i \in 1..Len(sensores) : sensores[i].buffer # <<>>
    /\ notificadores # <<>>

\* C7: the report of a history of n records gives n as the alert count and
\* lists the last min(n, 5) records in insertion order; with n = 0 the
\* section is left out.
C7_ReportListsLastFive ==
    op.nombre = "generar_reporte" =>
        LET r == retorno[1]
            n == Len(log_alertas)
            m == Min(n, 5)
        IN  /\ r.alertas_registradas = n
            /\ n = 0 => r.ultimas = <<>>
            /\ n > 0 =>
                  /\ Len(r.ultimas) = 1
                  /\ Len(r.ultimas[1]) = m
                  /\ \A k \in 1..m :
                        LET reg == log_alertas[n - m + k]
                        IN  r.ultimas[1][k] =
                                [hora |-> reg.timestamp % 86400,
                                 sensor_id |-> reg.sensor_id,
                                 mensaje |-> reg.mensaje]

C7_Witness ==
    /\ op.nombre = "generar_reporte"
    /\ Len(log_alertas) = 6
    /\ Len(retorno[1].ultimas[1]) = 5
    /\ retorno[1].ultimas[1][1].hora = log_alertas[2].timestamp
    /\ log_alertas[1].sensor_id # log_alertas[6].sensor_id

\* C8: a temperature sensor alerts iff its average is >= umbral_max or
\* <= umbral_min, the average being the mean of the buffer and exactly 0
\* when the buffer is empty.
C8_TemperaturaAlertIffOutOfRange ==
    \A i \in 1..Len(sensores) :
        sensores[i].clase = "SensorTemperatura" =>
            LET s == sensores[i]
                n == Len(s.buffer)
                esperado ==
                    IF n = 0
                    THEN 0 >= s.umbral_max \/ 0 <= s.umbral_min
                    ELSE \/ Sum(s.buffer) >= s.umbral_max * n
                         \/ Sum(s.buffer) <= s.umbral_min * n
            IN  /\ en_alerta(s) <=> esperado
                /\ n = 0 => promedio(s) = [num |-> 0, den |-> 1]
                /\ n > 0 => promedio(s).num * n = Sum(s.buffer) * promedio(s).den
                /\ (op.nombre = "obtener_estado" /\ op.sensor = i) =>
                       (retorno[1].estado = "ALERTA" <=> esperado)

C8_Witness ==
    /\ op.nombre = "obtener_estado"
    /\ sensores[1].clase = "SensorTemperatura"
    /\ sensores[1].buffer = <<>>
    /\ sensores[1].umbral_min = 0
    /\ retorno[1].estado = "ALERTA"

\* C9: a vibration sensor alerts iff the root mean square of its buffer
\* (0 when empty) is >= rms_umbral; the predicate looks at the squares of
\* the values, not at their average.
C9_VibracionAlertIffRms ==
    \A i \in 1..Len(sensores) :
        sensores[i].clase = "SensorVibracion" =>
            LET s == sensores[i]
                n == Len(s.buffer)
                esperado ==
                    IF n = 0 THEN 0 >= s.rms_umbral
                    ELSE \/ s.rms_umbral <= 0
                         \/ SumSq(s.buffer) >= s.rms_umbral * s.rms_umbral * n
            IN  /\ en_alerta(s) <=> esperado
                /\ (op.nombre = "obtener_estado" /\ op.sensor = i) =>
                       (retorno[1].estado = "ALERTA" <=> esperado)

\* Values of opposite sign: the average is below the threshold, the sensor alerts.
C9_Witness ==
    /\ op.nombre = "obtener_estado"
    /\ sensores[1].clase = "SensorVibracion"
    /\ sensores[1].rms_umbral = 2
    /\ sensores[1].buffer = <<3, -3>>
    /\ ~RatGeq(promedio(sensores[1]), sensores[1].rms_umbral)
    /\ retorno[1].estado = "ALERTA"

EsDigito(c) == c \in Digits

\* C10: formato_numero keeps the digits of the number; with ten or more it
\* returns +1-NNN-NNN-NNNN built from the last ten in order, with fewer it
\* returns the number as stored; enviar always delivers.
C10_SmsFormatsLastTenDigits ==
    notificadores[1].clase = "NotificadorSMS" =>
        LET n == notificadores[1]
            d == SelectSeq(n.numero, EsDigito)
            L == Len(d)
            esperado ==
                IF L >= 10
                THEN <<"+", "1", "-", d[L - 9], d[L - 8], d[L - 7], "-",
                       d[L - 6], d[L - 5], d[L - 4], "-",
                       d[L - 3], d[L - 2], d[L - 1], d[L]>>
                ELSE n.numero
        IN  /\ formato_numero(n) = esperado
            /\ op.nombre = "enviar" =>
                  /\ excepcion = "none"
                  /\ salida = <<[tag |-> "SMS", proveedor |-> n.proveedor,
                                 numero |-> esperado, mensaje |-> op.mensaje]>>

C10_Witness ==
    /\ op.nombre = "enviar"
    /\ notificadores[1].clase = "NotificadorSMS"
    /\ notificadores[1].numero = <<"1", "-", "5", "5", "5", "-", "1", "2", "3", "-", "4", "5", "6", "7">>
    /\ salida[1].numero = <<"+", "1", "-", "5", "5", "5", "-", "1", "2", "3", "-", "4", "5", "6", "7">>

Fase(e) ==
    CASE e.ev = "en_alerta" -> 0
      [] e.ev = "append" -> 1
      [] e.ev = "enviar" -> 2

\* Event a belongs before event b: an earlier sensor; or the same sensor and
\* evaluation before append before sends; or two sends to the same sensor's
\* alert with the earlier notifier first.
Antes(a, b) ==
    \/ a.sensor < b.sensor
    \/ /\ a.sensor = b.sensor
       /\ \/ Fase(a) < Fase(b)
          \/ Fase(a) = 2 /\ Fase(b) = 2 /\ a.notificador < b.notificador

Appends(t) == SelectSeq(t, LAMBDA e : e.ev = "append")

\* C11: within one cycle sensors are evaluated in registration order with
\* none skipped, the record of an alerting sensor is in the history before
\* any notifier is invoked for it, notifiers are invoked in registration
\* order, and all sends for one sensor come before the next sensor is
\* evaluated.
C11_CycleEventOrder ==
    op.nombre = "evaluar_y_notificar" =>
        /\ \A p \in 1..Len(traza) : \A q \in 1..Len(traza) :
               p < q => Antes(traza[p], traza[q])
        /\ Evaluados(traza) = 1..Cardinality(Evaluados(traza))
        /\ \A i \in Evaluados(traza) :
               LET ns == {traza[k].notificador :
                             k \in {x \in Envios(traza) : traza[x].sensor = i}}
               IN  ns = 1..Cardinality(ns)
        /\ \A p \in Envios(traza) :
               \E q \in 1..(p - 1) :
                   traza[q].ev = "append" /\ traza[q].sensor = traza[p].sensor
        /\ LET a == Appends(traza)
               n == Len(log_alertas)
           IN  /\ Len(a) <= n
               /\ \A k \in 1..Len(a) :
                      log_alertas[n - Len(a) + k].sensor_id = sensores[a[k].sensor].id
        /\ excepcion = "none" => Evaluados(traza) = 1..Len(sensores)

\* Two alerting sensors and two notifiers that return: eight events.
C11_Witness ==
    /\ op.nombre = "evaluar_y_notificar"
    /\ excepcion = "none"
    /\ Len(traza) = 8
    /\ traza[3].ev = "enviar" /\ traza[3].notificador = 1
    /\ traza[4].ev = "enviar" /\ traza[4].notificador = 2
    /\ traza[5].ev = "en_alerta" /\ traza[5].sensor = 2

\* The indices of the alerting sensors, in registration order
AlertandoEnOrden ==
    SelectSeq([k \in 1..Len(sensores) |-> k], LAMBDA k : en_alerta(sensores[k]))

\* C12: a cycle appends, after the records already there and in sensor
\* order, exactly one record per alerting sensor, with nivel WARNING and the
\* sensor's current average as valor_medido, whether or not the sensor was
\* already reported by an earlier cycle.
C12_OneWarningRecordPerAlert ==
    [][op'.nombre = "evaluar_y_notificar" =>
          LET a == AlertandoEnOrden
              n == Len(log_alertas)
          IN  /\ Len(log_alertas') = n + Len(a)
              /\ SubSeq(log_alertas', 1, n) = log_alertas
              /\ \A k \in 1..Len(a) :
                     /\ log_alertas'[n + k].sensor_id = sensores[a[k]].id
                     /\ log_alertas'[n + k].nivel = "WARNING"
                     /\ log_alertas'[n + k].valor_medido = promedio(sensores[a[k]])]_vars

\* C13: generar_reporte and obtener_estado (which reads promedio and
\* en_alerta) change no sensor, buffer, notifier or history record; leer on
\* one sensor changes no other sensor, no notifier and no history record.
C13_ReadsArePure ==
    [][/\ op'.nombre \in {"generar_reporte", "obtener_estado"} =>
             /\ sensores' = sensores
             /\ notificadores' = notificadores
             /\ log_alertas' = log_alertas
       /\ op'.nombre = "leer" =>
             /\ Len(sensores') = Len(sensores)
             /\ \A k \in 1..Len(sensores) :
                    k # op'.sensor => sensores'[k] = sensores[k]
             /\ notificadores' = notificadores
             /\ log_alertas' = log_alertas]_vars

C13_Witness ==
    /\ op.nombre = "generar_reporte"
    /\ Len(sensores) = 2
    /\ \E i \in 1..Len(sensores) : sensores[i].buffer # <<>>
    /\ notificadores # <<>>
    /\ Len(log_alertas) = 2
    /\ retorno[1].alertas_registradas = 2

====
